---- MODULE Spec2Model ----
(***************************************************************************)
(* Model of train() in src/train.py: the latent cache build, the resume    *)
(* of a checkpoint, the epoch/step loop with its timestep policy, loss     *)
(* windows and cadence side effects (debug render, inference barrier,      *)
(* checkpoint save), run by one or more data-parallel worker processes.    *)
(* The helpers imported from data.py, transfusion2.py and vae.py are not   *)
(* part of src/; they are modelled from the specification.                 *)
(***************************************************************************)
EXTENDS Integers, Sequences, FiniteSets, TLC

\* ------------------------------------------------------------ bounds
MaxRestarts == 2      \* launches of the process after the first one
MaxPairs == 2         \* largest dataset (text-image pairs) of the cache runs
MaxSeed == 1          \* the loss sequences the external model may return
WinPairs == 11        \* dataset size of the long run that fills the loss windows
MaxSide == 4          \* largest H and W of the tensors the codec is applied to
MaxPatch == 2         \* largest patch_size of the tensors the codec is applied to

\* ------------------------------------------------- program constants
num_epochs == 10
N_loss_window == 100
LatentChannels == 4
\* 0.7 in tenths: timesteps are modelled in tenths, [0,1) is 0..9
FixedTimestep == 7
\* representatives of the values torch.rand can return in [0,1)
TimeValues == {0, FixedTimestep, 9}

VARIABLES
    nworkers,      \* number of data-parallel worker processes
    npairs,        \* len(text_image_pairs)
    seed,          \* selects the losses the external model returns
    inputs,        \* the command lines a launch may use
    args,          \* parsed command line of the running launch
    launches,      \* number of launches so far
    cache_dir,     \* dataset_cache/: shard name <<batch_size, i>> -> saved batch
    ckpt,          \* checkpoint file: <<>> or <<record>>
    encodes,       \* number of vae_encode_batch invocations so far
    writes,        \* number of shard files written so far
    saves,         \* save_checkpoint calls of the running launch
    at_launch,     \* cache_dir, encodes and writes as the running launch found them
    reached,       \* per worker: step_counter when the previous process ended, until
                   \* the new process has set its own
    barrier,       \* workers blocked in a collective
    arrivals,      \* <<worker, call site, step>> of the wait_for_everyone calls of
    ops,           \* history: the operations a worker has performed in its current step
                   \* the running launch
    pc,            \* per worker: position in train()
    ci,            \* per worker: index of the cache build loop
    cache_files,   \* per worker: cached_dataset.cache_files
    next_epoch,    \* per worker: next value of range(start_epoch, num_epochs)
    epoch,         \* per worker: epoch
    bi,            \* per worker: i of enumerate(progress_bar, 1)
    step_counter,  \* per worker: step_counter
    batch,         \* per worker: the fetched batch
    bsz,           \* per worker: bsz
    text,          \* per worker: text
    latents,       \* per worker: latents
    times,         \* per worker: times
    overridden,    \* per worker: the branch of line 188 was taken in this step
    loss,          \* per worker: loss_dict of the last forward
    updates,       \* per worker: optimizer/scheduler steps and pending gradients
    text_loss_window,
    diffusion_loss_window,
    recorded,      \* per worker: every loss pair recorded since the windows were created
    avg,           \* per worker: avg_text_loss, avg_diffusion_loss as <<sum, len>>
    unpatchify2,   \* per worker: the closure of line 224
    rendered,      \* per worker: arguments of the last debug_image call
    lineage,       \* per worker: step numbers executed up to here, through resumes
    pf             \* the codec applied to a drawn tensor

vars == <<nworkers, npairs, seed, inputs, args, launches, cache_dir, ckpt, encodes,
          writes, saves, at_launch, reached, barrier, arrivals, ops, pc, ci,
          cache_files, next_epoch, epoch, bi, step_counter, batch, bsz, text, latents, times, overridden, loss, updates,
          text_loss_window, diffusion_loss_window, recorded, avg, unpatchify2,
          rendered, lineage, pf>>

globals == <<nworkers, npairs, seed, inputs>>

Workers == 1..nworkers

Min(a, b) == IF a < b THEN a ELSE b

RECURSIVE SumSeq(_)
SumSeq(s) == IF s = <<>> THEN 0 ELSE Head(s) + SumSeq(Tail(s))

RECURSIVE Flatten(_)
Flatten(ss) == IF ss = <<>> THEN <<>> ELSE Head(ss) \o Flatten(Tail(ss))

RECURSIVE SortedSeq(_)
SortedSeq(S) ==
    IF S = {} THEN <<>>
    ELSE LET m == CHOOSE x \in S : \A y \in S : x <= y
         IN <<m>> \o SortedSeq(S \ {m})

\* ------------------------------------------------------ the dataset
\* DataLoader(dataset, batch_size, shuffle=False): number of batches
NumBatches(n, bs) == (n + bs - 1) \div bs

\* batch i (from 0) of the raw dataset, in dataset order
DatasetBatch(bs, i) ==
    LET ids == [k \in 1..Min(bs, npairs - i * bs) |-> i * bs + k]
    IN [key \in {"input_ids", "pixel_values"} |-> ids]

\* the external encoder, one latent per image
vae_encode_batch(pixels) == [k \in 1..Len(pixels) |-> [enc |-> pixels[k]]]

EncodedBatchKeepsPixels(b) ==
    [key \in DOMAIN b \cup {"image_latents"} |->
        IF key = "image_latents" THEN vae_encode_batch(b["pixel_values"]) ELSE b[key]]

\* lines 108-109: add the latents, drop the pixels
EncodedBatch(b) ==
    LET withLat == [key \in DOMAIN b \cup {"image_latents"} |->
                      IF key = "image_latents" THEN vae_encode_batch(b["pixel_values"])
                      ELSE b[key]]
    IN [key \in DOMAIN withLat \ {"pixel_values"} |-> withLat[key]]

\* line 111
CacheFileName(bs, i) == <<bs, i>>

\* CachedDataset(cache_dir, batch_size, accelerator): the shards of this batch
\* size, ordered by shard index
CachedDataset(dir, bs) ==
    LET idx == SortedSeq({n[2] : n \in {m \in DOMAIN dir : m[1] = bs}})
    IN [k \in 1..Len(idx) |-> CacheFileName(bs, idx[k])]

\* len(dataloader) of DataLoader(cached_dataset, batch_size=cache_batch_size)
\* after accelerator.prepare shards it over the workers
LoaderLen(files, cbs) == NumBatches(Len(files), cbs)
WorkerLoaderLen(files, cbs) == NumBatches(LoaderLen(files, cbs), nworkers)

\* accelerate's batch sampler shard (even_batches, the default of Accelerator()):
\* the samples of the first nworkers batches, doubled until they fill one
\* batch per worker
RECURSIVE Doubled(_, _)
Doubled(s, n) == IF Len(s) >= n \/ Len(s) = 0 THEN s ELSE Doubled(s \o s, n)

InitialData(files, cbs) ==
    Doubled(SubSeq(files, 1, Min(Len(files), nworkers * cbs)), nworkers * cbs)

\* the epoch of all workers: the shards in order, a short last batch filled
\* up and the last round of batches completed from the start of the epoch
EvenFiles(files, cbs) ==
    files \o SubSeq(InitialData(files, cbs), 1,
                    WorkerLoaderLen(files, cbs) * nworkers * cbs - Len(files))

\* the shard names of batch j (from 1) of worker w; a single process keeps
\* the plain DataLoader with its short last batch
WorkerBatchFiles(files, cbs, w, j) ==
    IF nworkers = 1
    THEN [k \in 1..Min(cbs, Len(files) - (j - 1) * cbs) |-> files[(j - 1) * cbs + k]]
    ELSE LET g == (j - 1) * nworkers + w - 1
         IN SubSeq(EvenFiles(files, cbs), g * cbs + 1, (g + 1) * cbs)


\* ------------------------------------------------------- tensors
\* a tensor is its shape and its elements in row-major order; ok = FALSE is
\* the ShapeError / RuntimeError a reshape raises
Tensor(shape, data) == [ok |-> TRUE, shape |-> shape, data |-> data]
ShapeError == [ok |-> FALSE, shape |-> <<>>, data |-> <<>>]

\* image_size // 8
LatentSide(image_size) == image_size \div 8

\* the elements of the latent of one encoded sample: distinct per sample and position
LatentElems(e, side) ==
    LET n == LatentChannels * side * side
    IN [k \in 1..n |-> (e.enc - 1) * n + k]

\* the token row of one sample
TokenRow(p, max_length) == [t \in 1..max_length |-> (p - 1) * max_length + t]

\* patchify(latents, patch_size): [B,C,H,W] -> [B, (H/p)*(W/p), C*p*p], each row
\* one patch, flattened channel-major
patchify(x, p) ==
    IF ~x.ok \/ Len(x.shape) # 4 THEN ShapeError
    ELSE
    LET B == x.shape[1]
        C == x.shape[2]
        H == x.shape[3]
        W == x.shape[4]
    IN IF p < 1 \/ H % p # 0 \/ W % p # 0 THEN ShapeError
       ELSE
       LET Wp == W \div p
           N == (H \div p) * Wp
           D == C * p * p
           src(q) ==
               LET b == q \div (N * D)
                   n == (q % (N * D)) \div D
                   d == q % D
                   i == n \div Wp
                   j == n % Wp
                   c == d \div (p * p)
                   u == (d % (p * p)) \div p
                   v == d % p
               IN ((b * C + c) * H + (i * p + u)) * W + (j * p + v)
       IN Tensor(<<B, N, D>>, [q \in 1..(B * N * D) |-> x.data[src(q - 1) + 1]])

\* unpatchify(patches, patch_size, B, C, H, W): the inverse of patchify for
\* matching shape parameters
unpatchify(y, p, B, C, H, W) ==
    IF ~y.ok \/ p < 1 \/ H % p # 0 \/ W % p # 0 THEN ShapeError
    ELSE IF Len(y.data) # B * C * H * W \/ y.shape[3] # C * p * p THEN ShapeError
    ELSE
    LET Wp == W \div p
        N == (H \div p) * Wp
        D == C * p * p
        src(r) ==
            LET b == r \div (C * H * W)
                c == (r % (C * H * W)) \div (H * W)
                hh == (r % (H * W)) \div W
                ww == r % W
            IN (b * N + (hh \div p) * Wp + (ww \div p)) * D
                 + c * p * p + (hh % p) * p + (ww % p)
    IN Tensor(<<B, C, H, W>>, [r \in 1..(B * C * H * W) |-> y.data[src(r - 1) + 1]])

\* the collated batch of the cached dataloader: the shards stacked in order;
\* ok is FALSE when the shards cannot be stacked (unequal sample counts)
Collate(dir, names) ==
    LET shards == [k \in 1..Len(names) |-> dir[names[k]]]
        counts == {Len(shards[k]["input_ids"]) : k \in 1..Len(names)}
    IN [ok |-> Cardinality(counts) = 1, shards |-> shards]

\* batch['input_ids'].shape[1]: samples per shard
SamplesPerShard(b) == Len(b.shards[1]["input_ids"])

\* line 176
FlatBatchSize(b, cbs) == SamplesPerShard(b) * cbs

\* line 177: batch['input_ids'].reshape(bsz, -1)
ReshapeText(b, n, max_length) ==
    LET flat == Flatten(Flatten([k \in 1..Len(b.shards) |->
                   [m \in 1..Len(b.shards[k]["input_ids"]) |->
                       TokenRow(b.shards[k]["input_ids"][m], max_length)]]))
    IN IF n = 0 \/ Len(flat) % n # 0 THEN ShapeError
       ELSE Tensor(<<n, Len(flat) \div n>>, flat)

\* line 178: batch['image_latents'].reshape(bsz, 4, image_size // 8, image_size // 8)
ReshapeLatents(b, n, image_size) ==
    LET side == LatentSide(image_size)
        flat == Flatten(Flatten([k \in 1..Len(b.shards) |->
                   [m \in 1..Len(b.shards[k]["image_latents"]) |->
                       LatentElems(b.shards[k]["image_latents"][m], side)]]))
    IN IF Len(flat) # n * LatentChannels * side * side THEN ShapeError
       ELSE Tensor(<<n, LatentChannels, side, side>>, flat)

\* line 224: unpatchify with the step's arguments already applied
Closure(p, n, image_size) ==
    [patch_size |-> p, B |-> n, C |-> LatentChannels,
     H |-> LatentSide(image_size), W |-> LatentSide(image_size)]

ApplyClosure(f, y) == unpatchify(y, f.patch_size, f.B, f.C, f.H, f.W)

NoClosure == [patch_size |-> 0, B |-> 0, C |-> 0, H |-> 0, W |-> 0]

TimestepOverrideBoth(step, n_inference, n_debug) ==
    step % n_inference = 0 /\ step % n_debug = 0

\* line 188
TimestepOverride(step, n_inference, n_debug) ==
    step % n_inference = 0 \/ step % n_debug = 0

\* the named loss components the external model returns at a step
ModelLoss(sd, step) ==
    [text |-> 1 + ((sd * step) % 7), diffusion |-> 1 + ((sd + step) % 5)]

\* lines 211-212: sum(window) / len(window), kept as the exact fraction
Average(window) == <<SumSeq(window), Len(window)>>
DivisionByZero == <<0, 0>>


\* ------------------------------------------------- process state
cachev == <<ci, cache_files>>
loopv == <<next_epoch, epoch, bi, step_counter, lineage>>
stepv == <<batch, bsz, text, latents, times, overridden, loss>>
winv == <<text_loss_window, diffusion_loss_window, recorded, avg>>
dbgv == <<unpatchify2, rendered>>
disk == <<cache_dir, encodes, writes>>
history == <<at_launch, reached>>

NoBatch == [ok |-> FALSE, shards |-> <<>>]
NoLoss == [text |-> 0, diffusion |-> 0]
NoLosses == [text |-> <<>>, diffusion |-> <<>>]
NoUpdates == [opt |-> 0, sched |-> 0, grads |-> FALSE]
NoRender == [f |-> NoClosure, latents |-> ShapeError, epoch |-> 0, step |-> 0]

\* the state of the workers before a launch and after the process is gone
ProcessGone ==
    /\ pc' = [w \in Workers |-> "off"]
    /\ barrier' = {}
    /\ arrivals' = {}
    /\ ops' = [w \in Workers |-> <<>>]
    /\ saves' = <<>>
    /\ ci' = [w \in Workers |-> 0]
    /\ cache_files' = [w \in Workers |-> <<>>]
    /\ next_epoch' = [w \in Workers |-> 0]
    /\ epoch' = [w \in Workers |-> 0]
    /\ bi' = [w \in Workers |-> 0]
    /\ step_counter' = [w \in Workers |-> 0]
    /\ lineage' = [w \in Workers |-> <<>>]
    /\ batch' = [w \in Workers |-> NoBatch]
    /\ bsz' = [w \in Workers |-> 0]
    /\ text' = [w \in Workers |-> ShapeError]
    /\ latents' = [w \in Workers |-> ShapeError]
    /\ times' = [w \in Workers |-> <<>>]
    /\ overridden' = [w \in Workers |-> FALSE]
    /\ loss' = [w \in Workers |-> NoLoss]
    /\ updates' = [w \in Workers |-> NoUpdates]
    /\ text_loss_window' = [w \in Workers |-> <<>>]
    /\ diffusion_loss_window' = [w \in Workers |-> <<>>]
    /\ recorded' = [w \in Workers |-> NoLosses]
    /\ avg' = [w \in Workers |-> [text |-> DivisionByZero, diffusion |-> DivisionByZero]]
    /\ unpatchify2' = [w \in Workers |-> NoClosure]
    /\ rendered' = [w \in Workers |-> NoRender]

Goto(w, label) == pc' = [pc EXCEPT ![w] = label]

AfterWaitSkipsOptimizer(label) ==
    CASE label = "backward_wait" -> "schedstep"
      [] label = "debug_wait" -> "debug_render"
      [] label = "infer_wait" -> "save"
      [] label = "save_wait" -> "save_write"

\* where a worker blocked in a collective continues
AfterWait(label) ==
    CASE label = "backward_wait" -> "optstep"
      [] label = "debug_wait" -> "debug_render"
      [] label = "infer_wait" -> "save"
      [] label = "save_wait" -> "save_write"

ArriveNoWait(w, label) == Goto(w, AfterWait(label)) /\ UNCHANGED barrier

\* accelerator.wait_for_everyone() and the gradient all-reduce: the caller blocks
\* until every worker has arrived, then all of them continue
Arrive(w, label) ==
    LET arrived == barrier \cup {w}
    IN IF arrived = Workers
       THEN /\ pc' = [v \in Workers |->
                        IF v = w THEN AfterWait(label)
                        ELSE IF v \in barrier THEN AfterWait(pc[v]) ELSE pc[v]]
            /\ barrier' = {}
       ELSE /\ Goto(w, label)
            /\ barrier' = arrived

\* ------------------------------------------------------- actions
\* lines 19-35: the process is started with a command line
Launch(r, c, bs) ==
    /\ nworkers >= 1
    /\ \A w \in Workers : pc[w] = "off"
    /\ launches <= MaxRestarts
    /\ launches' = launches + 1
    /\ args' = [args EXCEPT !.resume = r, !.cache = c, !.batch_size = bs]
    /\ pc' = [w \in Workers |-> "start"]
    /\ at_launch' = [dir |-> cache_dir, encodes |-> encodes, writes |-> writes]
    /\ UNCHANGED <<globals, disk, ckpt, saves, reached, barrier, cachev, loopv, stepv, updates,
                   winv, dbgv, pf>>
    /\ UNCHANGED <<arrivals, ops>>

\* the process is killed or exits
Terminate ==
    /\ \E w \in Workers : pc[w] # "off"
    /\ ProcessGone
    /\ reached' = step_counter
    /\ UNCHANGED <<globals, args, launches, at_launch, disk, ckpt, pf>>

NeedsBuildAlways(force, dir) == TRUE

\* line 104
NeedsBuild(force, dir) == force \/ DOMAIN dir = {}

\* lines 100-104, 113-114
CacheCheck(w) ==
    /\ pc[w] = "start"
    /\ IF NeedsBuild(args.cache, cache_dir)
       THEN Goto(w, "caching")
       ELSE Goto(w, "dataset")
    /\ ci' = [ci EXCEPT ![w] = 0]
    /\ UNCHANGED <<globals, args, launches, history, disk, ckpt, saves, barrier, cache_files,
                   loopv, stepv, updates, winv, dbgv, pf>>
    /\ UNCHANGED <<arrivals, ops>>

\* lines 107-112: one iteration of the build loop, or its end
CacheBatch(w) ==
    /\ pc[w] = "caching"
    /\ IF ci[w] < NumBatches(npairs, args.batch_size)
       THEN /\ cache_dir' = (CacheFileName(args.batch_size, ci[w])
                               :> EncodedBatch(DatasetBatch(args.batch_size, ci[w])))
                            @@ cache_dir
            /\ encodes' = encodes + 1
            /\ writes' = writes + 1
            /\ ci' = [ci EXCEPT ![w] = ci[w] + 1]
            /\ UNCHANGED pc
       ELSE /\ Goto(w, "dataset")
            /\ UNCHANGED <<disk, ci>>
    /\ UNCHANGED <<globals, args, launches, history, ckpt, saves, barrier, cache_files,
                   loopv, stepv, updates, winv, dbgv, pf>>
    /\ UNCHANGED <<arrivals, ops>>

\* lines 116-117
MakeDataset(w) ==
    /\ pc[w] = "dataset"
    /\ cache_files' = [cache_files EXCEPT ![w] = CachedDataset(cache_dir, args.batch_size)]
    /\ Goto(w, "resume")
    /\ UNCHANGED <<globals, args, launches, history, disk, ckpt, saves, barrier, ci,
                   loopv, stepv, updates, winv, dbgv, pf>>
    /\ UNCHANGED <<arrivals, ops>>

\* resume_checkpoint(model, optimizer, scheduler): the saved state
resume_checkpoint(file) ==
    [updates |-> file[1].updates, epoch |-> file[1].epoch, step |-> file[1].step]

\* lines 131-132 and 135-136: start_epoch and step_counter of this process
StartEpoch(resume, file) == IF resume THEN resume_checkpoint(file).epoch ELSE 0
StartStepOffByOne(resume, file) ==
    IF resume THEN resume_checkpoint(file).step + 1 ELSE 0
StartStep(resume, file) == IF resume THEN resume_checkpoint(file).step ELSE 0

\* lines 130-136
Resume(w) ==
    /\ pc[w] = "resume"
    /\ IF ~args.resume
       THEN /\ next_epoch' = [next_epoch EXCEPT ![w] = StartEpoch(args.resume, ckpt)]
            /\ step_counter' = [step_counter EXCEPT ![w] = StartStep(args.resume, ckpt)]
            /\ lineage' = [lineage EXCEPT ![w] = <<>>]
            /\ UNCHANGED updates
            /\ Goto(w, "prepare")
       ELSE IF ckpt = <<>>
       THEN /\ Goto(w, "error")
            /\ UNCHANGED <<next_epoch, step_counter, lineage, updates>>
       ELSE /\ next_epoch' = [next_epoch EXCEPT ![w] = StartEpoch(args.resume, ckpt)]
            /\ step_counter' = [step_counter EXCEPT ![w] = StartStep(args.resume, ckpt)]
            /\ updates' = [updates EXCEPT ![w] = resume_checkpoint(ckpt).updates]
            /\ lineage' = [lineage EXCEPT ![w] = ckpt[1].lineage]
            /\ Goto(w, "prepare")
    /\ reached' = [reached EXCEPT ![w] = 0]
    /\ UNCHANGED <<globals, args, launches, at_launch, disk, ckpt, saves, barrier, cachev,
                   epoch, bi, stepv, winv, dbgv, pf>>
    /\ UNCHANGED <<arrivals, ops>>

\* lines 139-163: the sample for inference is read from the first shard, the
\* loss windows are created
Prepare(w) ==
    /\ pc[w] = "prepare"
    /\ IF cache_files[w] = <<>> \/ cache_files[w][1] \notin DOMAIN cache_dir
       THEN /\ Goto(w, "error")
            /\ UNCHANGED <<text_loss_window, diffusion_loss_window, recorded>>
       ELSE /\ Goto(w, "epoch")
            /\ text_loss_window' = [text_loss_window EXCEPT ![w] = <<>>]
            /\ diffusion_loss_window' = [diffusion_loss_window EXCEPT ![w] = <<>>]
            /\ recorded' = [recorded EXCEPT ![w] = NoLosses]
    /\ UNCHANGED <<globals, args, launches, history, disk, ckpt, saves, barrier, cachev,
                   loopv, stepv, updates, avg, dbgv, pf>>
    /\ UNCHANGED <<arrivals, ops>>

\* line 168: for epoch in range(start_epoch, num_epochs)
ForEpoch(w) ==
    /\ pc[w] = "epoch"
    /\ IF next_epoch[w] < num_epochs
       THEN /\ epoch' = [epoch EXCEPT ![w] = next_epoch[w]]
            /\ next_epoch' = [next_epoch EXCEPT ![w] = next_epoch[w] + 1]
            /\ bi' = [bi EXCEPT ![w] = 0]
            /\ Goto(w, "batch")
       ELSE /\ Goto(w, "done")
            /\ UNCHANGED <<epoch, next_epoch, bi>>
    /\ UNCHANGED <<globals, args, launches, history, disk, ckpt, saves, barrier, cachev,
                   step_counter, lineage, stepv, updates, winv, dbgv, pf>>
    /\ UNCHANGED <<arrivals, ops>>

NextStepTwice(s) == s + 2

\* line 174
NextStep(s) == s + 1

\* lines 173-174: for i, batch in enumerate(progress_bar, 1): step_counter += 1
ForBatch(w) ==
    /\ pc[w] = "batch"
    /\ IF bi[w] < WorkerLoaderLen(cache_files[w], args.cache_batch_size)
       THEN LET names == WorkerBatchFiles(cache_files[w], args.cache_batch_size,
                                          w, bi[w] + 1)
                b == Collate(cache_dir, names)
            IN IF b.ok
               THEN /\ batch' = [batch EXCEPT ![w] = b]
                    /\ bi' = [bi EXCEPT ![w] = bi[w] + 1]
                    /\ step_counter' = [step_counter EXCEPT ![w] = NextStep(step_counter[w])]
                    /\ lineage' = [lineage EXCEPT ![w] =
                                     Append(lineage[w], NextStep(step_counter[w]))]
                    /\ Goto(w, "reshape")
               ELSE /\ Goto(w, "error")
                    /\ UNCHANGED <<batch, bi, step_counter, lineage>>
       ELSE /\ Goto(w, "epoch")
            /\ UNCHANGED <<batch, bi, step_counter, lineage>>
    /\ UNCHANGED <<globals, args, launches, history, disk, ckpt, saves, barrier, cachev,
                   next_epoch, epoch, bsz, text, latents, times, overridden, loss,
                   updates, winv, dbgv, pf>>
    /\ ops' = [ops EXCEPT ![w] = IF pc'[w] = "epoch" THEN @ ELSE <<"fetch">>]
    /\ UNCHANGED arrivals

\* lines 176-180
Reshape(w) ==
    /\ pc[w] = "reshape"
    /\ LET n == FlatBatchSize(batch[w], args.cache_batch_size)
           t == ReshapeText(batch[w], n, args.max_length)
           l == IF t.ok THEN ReshapeLatents(batch[w], n, args.image_size) ELSE ShapeError
           q == patchify(l, args.patch_size)
       IN /\ bsz' = [bsz EXCEPT ![w] = n]
          /\ text' = [text EXCEPT ![w] = t]
          /\ latents' = [latents EXCEPT ![w] = q]
          /\ IF q.ok THEN Goto(w, "times") ELSE Goto(w, "error")
    /\ UNCHANGED <<globals, args, launches, history, disk, ckpt, saves, barrier, cachev,
                   loopv, batch, times, overridden, loss, updates, winv, dbgv, pf>>
    /\ UNCHANGED <<arrivals, ops>>

\* lines 186-190
SampleTimes(w) ==
    /\ pc[w] = "times"
    /\ \E drawn \in [1..latents[w].shape[1] -> TimeValues] :
         LET fixed == TimestepOverride(step_counter[w], args.inference_steps,
                                       args.debug_steps)
         IN /\ times' = [times EXCEPT ![w] =
                           IF fixed THEN [k \in 1..latents[w].shape[1] |-> FixedTimestep]
                           ELSE drawn]
            /\ overridden' = [overridden EXCEPT ![w] = fixed]
    /\ Goto(w, "forward")
    /\ UNCHANGED <<globals, args, launches, history, disk, ckpt, saves, barrier, cachev,
                   loopv, batch, bsz, text, latents, loss, updates, winv, dbgv, pf>>
    /\ UNCHANGED <<arrivals, ops>>

\* line 194
Forward(w) ==
    /\ pc[w] = "forward"
    /\ loss' = [loss EXCEPT ![w] = ModelLoss(seed, step_counter[w])]
    /\ Goto(w, "backward")
    /\ UNCHANGED <<globals, args, launches, history, disk, ckpt, saves, barrier, cachev,
                   loopv, batch, bsz, text, latents, times, overridden, updates,
                   winv, dbgv, pf>>
    /\ ops' = [ops EXCEPT ![w] = Append(@, "forward")]
    /\ UNCHANGED arrivals

\* line 196: the gradients are computed and reduced over the workers
Backward(w) ==
    /\ pc[w] = "backward"
    /\ updates' = [updates EXCEPT ![w].grads = TRUE]
    /\ Arrive(w, "backward_wait")
    /\ UNCHANGED <<globals, args, launches, history, disk, ckpt, saves, cachev,
                   loopv, stepv, winv, dbgv, pf>>
    /\ ops' = [ops EXCEPT ![w] = Append(@, "backward")]
    /\ UNCHANGED arrivals

\* line 197
OptimizerStep(w) ==
    /\ pc[w] = "optstep"
    /\ updates' = [updates EXCEPT ![w].opt = @ + 1]
    /\ Goto(w, "schedstep")
    /\ UNCHANGED <<globals, args, launches, history, disk, ckpt, saves, barrier, cachev,
                   loopv, stepv, winv, dbgv, pf>>
    /\ ops' = [ops EXCEPT ![w] = Append(@, "optimizer_step")]
    /\ UNCHANGED arrivals

\* line 198
SchedulerStep(w) ==
    /\ pc[w] = "schedstep"
    /\ updates' = [updates EXCEPT ![w].sched = @ + 1]
    /\ Goto(w, "zerograd")
    /\ UNCHANGED <<globals, args, launches, history, disk, ckpt, saves, barrier, cachev,
                   loopv, stepv, winv, dbgv, pf>>
    /\ ops' = [ops EXCEPT ![w] = Append(@, "scheduler_step")]
    /\ UNCHANGED arrivals

\* line 199
ZeroGrad(w) ==
    /\ pc[w] = "zerograd"
    /\ updates' = [updates EXCEPT ![w].grads = FALSE]
    /\ Goto(w, "append_text")
    /\ UNCHANGED <<globals, args, launches, history, disk, ckpt, saves, barrier, cachev,
                   loopv, stepv, winv, dbgv, pf>>
    /\ ops' = [ops EXCEPT ![w] = Append(@, "zero_grad")]
    /\ UNCHANGED arrivals


\* line 202
AppendText(w) ==
    /\ pc[w] = "append_text"
    /\ text_loss_window' = [text_loss_window EXCEPT ![w] = Append(@, loss[w].text)]
    /\ recorded' = [recorded EXCEPT ![w].text = Append(@, loss[w].text)]
    /\ Goto(w, "append_diffusion")
    /\ UNCHANGED <<globals, args, launches, history, disk, ckpt, saves, barrier, cachev,
                   loopv, stepv, updates, diffusion_loss_window, avg, dbgv, pf>>
    /\ ops' = [ops EXCEPT ![w] = Append(@, "record_text")]
    /\ UNCHANGED arrivals

\* line 203
AppendDiffusion(w) ==
    /\ pc[w] = "append_diffusion"
    /\ diffusion_loss_window' =
           [diffusion_loss_window EXCEPT ![w] = Append(@, loss[w].diffusion)]
    /\ recorded' = [recorded EXCEPT ![w].diffusion = Append(@, loss[w].diffusion)]
    /\ Goto(w, "evict_text")
    /\ UNCHANGED <<globals, args, launches, history, disk, ckpt, saves, barrier, cachev,
                   loopv, stepv, updates, text_loss_window, avg, dbgv, pf>>
    /\ ops' = [ops EXCEPT ![w] = Append(@, "record_diffusion")]
    /\ UNCHANGED arrivals

EvictLate(window) == IF Len(window) > N_loss_window + 1 THEN Tail(window) ELSE window
EvictNewest(window) ==
    IF Len(window) > N_loss_window THEN SubSeq(window, 1, Len(window) - 1) ELSE window

EvictAlways(window) == Tail(window)

\* lines 205-206 and 207-208: if len(window) > N_loss_window: window.pop(0)
Evict(window) == IF Len(window) > N_loss_window THEN Tail(window) ELSE window

\* lines 205-206
EvictText(w) ==
    /\ pc[w] = "evict_text"
    /\ text_loss_window' = [text_loss_window EXCEPT ![w] = Evict(@)]
    /\ Goto(w, "evict_diffusion")
    /\ UNCHANGED <<globals, args, launches, history, disk, ckpt, saves, barrier, cachev,
                   loopv, stepv, updates, diffusion_loss_window, recorded, avg, dbgv, pf>>
    /\ UNCHANGED <<arrivals, ops>>

\* lines 207-208
EvictDiffusion(w) ==
    /\ pc[w] = "evict_diffusion"
    /\ diffusion_loss_window' = [diffusion_loss_window EXCEPT ![w] = Evict(@)]
    /\ Goto(w, "average")
    /\ UNCHANGED <<globals, args, launches, history, disk, ckpt, saves, barrier, cachev,
                   loopv, stepv, updates, text_loss_window, recorded, avg, dbgv, pf>>
    /\ UNCHANGED <<arrivals, ops>>

\* lines 210-218
MovingAverages(w) ==
    /\ pc[w] = "average"
    /\ IF text_loss_window[w] = <<>> \/ diffusion_loss_window[w] = <<>>
       THEN /\ Goto(w, "error")
            /\ UNCHANGED avg
       ELSE /\ avg' = [avg EXCEPT ![w] = [text |-> Average(text_loss_window[w]),
                                          diffusion |-> Average(diffusion_loss_window[w])]]
            /\ Goto(w, "debug")
    /\ UNCHANGED <<globals, args, launches, history, disk, ckpt, saves, barrier, cachev,
                   loopv, stepv, updates, text_loss_window, diffusion_loss_window,
                   recorded, dbgv, pf>>
    /\ UNCHANGED <<arrivals, ops>>

\* lines 220-221
Debug(w) ==
    /\ pc[w] = "debug"
    /\ IF step_counter[w] % args.debug_steps = 0
       THEN /\ Arrive(w, "debug_wait")
            /\ arrivals' = arrivals \cup {<<w, "debug_wait", step_counter[w]>>}
       ELSE /\ Goto(w, "inference")
            /\ UNCHANGED <<barrier, arrivals>>
    /\ UNCHANGED <<globals, args, launches, history, disk, ckpt, saves, cachev,
                   loopv, stepv, updates, winv, dbgv, pf>>
    /\ UNCHANGED ops

MakeUnpatchify2Shard(w) == Closure(args.patch_size, args.batch_size, args.image_size)

\* line 224
MakeUnpatchify2(w) == Closure(args.patch_size, bsz[w], args.image_size)

\* lines 222-225
DebugRender(w) ==
    /\ pc[w] = "debug_render"
    /\ unpatchify2' = [unpatchify2 EXCEPT ![w] = MakeUnpatchify2(w)]
    /\ rendered' = [rendered EXCEPT ![w] =
                      [f |-> MakeUnpatchify2(w), latents |-> latents[w],
                       epoch |-> epoch[w], step |-> step_counter[w]]]
    /\ Goto(w, "inference")
    /\ UNCHANGED <<globals, args, launches, history, disk, ckpt, saves, barrier, cachev,
                   loopv, stepv, updates, winv, pf>>
    /\ ops' = [ops EXCEPT ![w] = Append(@, "debug_render")]
    /\ UNCHANGED arrivals

\* lines 228-231
Inference(w) ==
    /\ pc[w] = "inference"
    /\ IF step_counter[w] % args.inference_steps = 0
       THEN /\ Arrive(w, "infer_wait")
            /\ arrivals' = arrivals \cup {<<w, "infer_wait", step_counter[w]>>}
            /\ ops' = [ops EXCEPT ![w] = Append(@, "inference_barrier")]
       ELSE /\ Goto(w, "save")
            /\ UNCHANGED <<barrier, arrivals, ops>>
    /\ UNCHANGED <<globals, args, launches, history, disk, ckpt, saves, cachev,
                   loopv, stepv, updates, winv, dbgv, pf>>

SaveDueBefore(step, n_save) == (step + 1) % n_save = 0

\* line 234
SaveDue(step, n_save) == step % n_save = 0

\* lines 233-235
Save(w) ==
    /\ pc[w] = "save"
    /\ IF SaveDue(step_counter[w], args.save_steps)
       THEN /\ Arrive(w, "save_wait")
            /\ arrivals' = arrivals \cup {<<w, "save_wait", step_counter[w]>>}
       ELSE /\ Goto(w, "batch")
            /\ UNCHANGED <<barrier, arrivals>>
    /\ UNCHANGED <<globals, args, launches, history, disk, ckpt, saves, cachev,
                   loopv, stepv, updates, winv, dbgv, pf>>
    /\ UNCHANGED ops

\* save_checkpoint(model, optimizer, scheduler, loss, epoch, step_counter): the
\* record written as one unit
save_checkpoint(u, l, e, s, steps) ==
    <<[updates |-> u, loss |-> l, epoch |-> e, step |-> s, lineage |-> steps]>>

\* lines 236-237
SaveWrite(w) ==
    /\ pc[w] = "save_write"
    /\ ckpt' = save_checkpoint(updates[w], loss[w], epoch[w], step_counter[w], lineage[w])
    /\ saves' = Append(saves, [worker |-> w, epoch |-> epoch[w], step |-> step_counter[w]])
    /\ Goto(w, "batch")
    /\ UNCHANGED <<globals, args, launches, history, disk, barrier, cachev,
                   loopv, stepv, updates, winv, dbgv, pf>>
    /\ ops' = [ops EXCEPT ![w] = Append(@, "save")]
    /\ UNCHANGED arrivals

\* the codec applied to the drawn tensor
PfPatchify ==
    /\ pf.stage = "drawn"
    /\ pf' = [pf EXCEPT !.stage = "patchified", !.y = patchify(pf.x, pf.p)]
    /\ UNCHANGED <<globals, args, launches, history, disk, ckpt, saves, barrier, pc, cachev,
                   loopv, stepv, updates, winv, dbgv>>
    /\ UNCHANGED <<arrivals, ops>>

PfUnpatchify ==
    /\ pf.stage = "patchified"
    /\ pf' = [pf EXCEPT !.stage = "restored",
                        !.z = unpatchify(pf.y, pf.p, pf.x.shape[1], pf.x.shape[2],
                                         pf.x.shape[3], pf.x.shape[4])]
    /\ UNCHANGED <<globals, args, launches, history, disk, ckpt, saves, barrier, pc, cachev,
                   loopv, stepv, updates, winv, dbgv>>
    /\ UNCHANGED <<arrivals, ops>>

\* the steps of the workers
Train ==
    \/ \E w \in Workers : CacheCheck(w)
    \/ \E w \in Workers : CacheBatch(w)
    \/ \E w \in Workers : MakeDataset(w)
    \/ \E w \in Workers : Resume(w)
    \/ \E w \in Workers : Prepare(w)
    \/ \E w \in Workers : ForEpoch(w)
    \/ \E w \in Workers : ForBatch(w)
    \/ \E w \in Workers : Reshape(w)
    \/ \E w \in Workers : SampleTimes(w)
    \/ \E w \in Workers : Forward(w)
    \/ \E w \in Workers : Backward(w)
    \/ \E w \in Workers : OptimizerStep(w)
    \/ \E w \in Workers : SchedulerStep(w)
    \/ \E w \in Workers : ZeroGrad(w)
    \/ \E w \in Workers : AppendText(w)
    \/ \E w \in Workers : AppendDiffusion(w)
    \/ \E w \in Workers : EvictText(w)
    \/ \E w \in Workers : EvictDiffusion(w)
    \/ \E w \in Workers : MovingAverages(w)
    \/ \E w \in Workers : Debug(w)
    \/ \E w \in Workers : DebugRender(w)
    \/ \E w \in Workers : Inference(w)
    \/ \E w \in Workers : Save(w)
    \/ \E w \in Workers : SaveWrite(w)

Start == \E r \in inputs.resume, c \in inputs.cache, bs \in inputs.batch_size : Launch(r, c, bs)

\* ----------------------------------------------------- initial states
DefaultCadence == [debug_steps |-> 20, inference_steps |-> 200, save_steps |-> 200]
ShortCadence == [debug_steps |-> 2, inference_steps |-> 3, save_steps |-> 5]

Args(bs, cbs, image_size, patch_size, cadence) ==
    [resume |-> FALSE, cache |-> FALSE, batch_size |-> bs, cache_batch_size |-> cbs,
     image_size |-> image_size, patch_size |-> patch_size, max_length |-> 2,
     debug_steps |-> cadence.debug_steps, inference_steps |-> cadence.inference_steps,
     save_steps |-> cadence.save_steps]

NoPf == [stage |-> "none", p |-> 0, x |-> ShapeError, y |-> ShapeError, z |-> ShapeError]

InitProcess(W, n, sd, inp, a, codec) ==
    /\ nworkers = W
    /\ npairs = n
    /\ seed = sd
    /\ inputs = inp
    /\ args = a
    /\ launches = 0
    /\ cache_dir = <<>>
    /\ ckpt = <<>>
    /\ encodes = 0
    /\ writes = 0
    /\ saves = <<>>
    /\ at_launch = [dir |-> <<>>, encodes |-> 0, writes |-> 0]
    /\ reached = [w \in 1..W |-> 0]
    /\ barrier = {}
    /\ arrivals = {}
    /\ ops = [w \in Workers |-> <<>>]
    /\ pc = [w \in 1..W |-> "off"]
    /\ ci = [w \in 1..W |-> 0]
    /\ cache_files = [w \in 1..W |-> <<>>]
    /\ next_epoch = [w \in 1..W |-> 0]
    /\ epoch = [w \in 1..W |-> 0]
    /\ bi = [w \in 1..W |-> 0]
    /\ step_counter = [w \in 1..W |-> 0]
    /\ lineage = [w \in 1..W |-> <<>>]
    /\ batch = [w \in 1..W |-> NoBatch]
    /\ bsz = [w \in 1..W |-> 0]
    /\ text = [w \in 1..W |-> ShapeError]
    /\ latents = [w \in 1..W |-> ShapeError]
    /\ times = [w \in 1..W |-> <<>>]
    /\ overridden = [w \in 1..W |-> FALSE]
    /\ loss = [w \in 1..W |-> NoLoss]
    /\ updates = [w \in 1..W |-> NoUpdates]
    /\ text_loss_window = [w \in 1..W |-> <<>>]
    /\ diffusion_loss_window = [w \in 1..W |-> <<>>]
    /\ recorded = [w \in 1..W |-> NoLosses]
    /\ avg = [w \in 1..W |-> [text |-> DivisionByZero, diffusion |-> DivisionByZero]]
    /\ unpatchify2 = [w \in 1..W |-> NoClosure]
    /\ rendered = [w \in 1..W |-> NoRender]
    /\ pf = codec

\* one worker, restarts with or without --resume
TrainConfigs ==
    { [npairs |-> 4, args |-> Args(1, 1, 16, 2, DefaultCadence)],
      [npairs |-> 3, args |-> Args(1, 1, 16, 2, ShortCadence)],
      [npairs |-> 3, args |-> Args(1, 2, 16, 2, ShortCadence)],
      [npairs |-> 4, args |-> Args(2, 1, 8, 1, ShortCadence)] }

Init ==
    \E c \in TrainConfigs :
        InitProcess(1, c.npairs, 0,
                    [resume |-> BOOLEAN, cache |-> {FALSE}, batch_size |-> {c.args.batch_size}],
                    c.args, NoPf)

Next == Start \/ Terminate \/ Train

Spec == Init /\ [][Next]_vars


\* one worker; launches choose the batch size and the --cache flag
InitCache ==
    \E n \in 1..MaxPairs :
        InitProcess(1, n, 0,
                    [resume |-> {FALSE}, cache |-> BOOLEAN, batch_size |-> {1, 2}],
                    Args(1, 1, 8, 1, ShortCadence), NoPf)

SpecCache == InitCache /\ [][Next]_vars

\* one worker, one launch, more steps than the loss windows hold
WindowCadence == [debug_steps |-> 20, inference_steps |-> 200, save_steps |-> 50]

InitWin ==
    \E sd \in 0..MaxSeed :
        InitProcess(1, WinPairs, sd,
                    [resume |-> {FALSE}, cache |-> {FALSE}, batch_size |-> {1}],
                    Args(1, 1, 8, 1, WindowCadence), NoPf)

NextWin == Start \/ Train

SpecWin == InitWin /\ [][NextWin]_vars

\* two data-parallel workers, one launch
InitPar ==
    \/ InitProcess(2, 2, 0, [resume |-> {FALSE}, cache |-> {FALSE}, batch_size |-> {1}],
                   Args(1, 1, 8, 1, ShortCadence), NoPf)
    \/ InitProcess(2, 3, 0, [resume |-> {FALSE}, cache |-> {FALSE}, batch_size |-> {1}],
                   Args(1, 2, 8, 1, ShortCadence), NoPf)

SpecPar == InitPar /\ [][NextWin]_vars

\* the codec on drawn tensors, and one launch of one worker over image and
\* patch sizes
Iota(shape) == Tensor(shape, [k \in 1..(shape[1] * shape[2] * shape[3] * shape[4]) |-> k])

PatchConfigs ==
    { Args(g[1], g[2], image_size, p, ShortCadence) :
        g \in {<<1, 1>>, <<2, 1>>, <<1, 2>>}, image_size \in {8, 16}, p \in 1..MaxPatch }

InitPatch ==
    \/ \E B \in 1..2, C \in {1, LatentChannels}, H \in 1..MaxSide, W \in 1..MaxSide,
          p \in 1..MaxPatch :
          InitProcess(0, 0, 0, [resume |-> {}, cache |-> {}, batch_size |-> {}],
                      Args(1, 1, 8, 1, ShortCadence),
                      [NoPf EXCEPT !.stage = "drawn", !.p = p, !.x = Iota(<<B, C, H, W>>)])
    \/ \E a \in PatchConfigs :
          InitProcess(1, 2, 0,
                      [resume |-> {FALSE}, cache |-> {FALSE}, batch_size |-> {a.batch_size}],
                      a, NoPf)

NextPatch == Start \/ Train \/ PfPatchify \/ PfUnpatchify

SpecPatch == InitPatch /\ [][NextPatch]_vars

\* --------------------------------------------------------- claims
\* the worker is in the epoch/step loop, past the fetch of a batch
InStep(w) ==
    pc[w] \in {"reshape", "times", "forward", "backward", "backward_wait", "optstep",
               "schedstep", "zerograd", "append_text", "append_diffusion", "evict_text",
               "evict_diffusion", "average", "debug", "debug_wait", "debug_render",
               "inference", "infer_wait", "save", "save_wait", "save_write"}

\* C1 as stated: the step counter never decreases, neither within a process nor
\* from the end of one process to the resume of the next.
C1_NeverDecreases ==
    [][\A w \in Workers :
         /\ (pc[w] # "off" /\ pc'[w] # "off") => step_counter'[w] >= step_counter[w]
         /\ (pc[w] = "resume" /\ pc'[w] = "prepare" /\ args.resume)
                => step_counter'[w] >= reached[w]]_vars

\* C1 as amended: every training step adds exactly 1 to the step counter, no
\* other statement of a running process changes it (an epoch boundary does not
\* reset it), and a restart with resume sets it to the step of the checkpoint
\* on disk, which is positive.
C1_StepCounter ==
    [][\A w \in Workers :
         /\ (pc[w] = "batch" /\ pc'[w] = "reshape")
                => step_counter'[w] = step_counter[w] + 1
         /\ (pc[w] \notin {"off", "resume"} /\ pc'[w] \notin {"off", "reshape"})
                => step_counter'[w] = step_counter[w]
         /\ (pc[w] = "epoch" /\ pc'[w] = "batch")
                => (epoch'[w] = next_epoch[w] /\ step_counter'[w] = step_counter[w])
         /\ (pc[w] = "resume" /\ pc'[w] = "prepare" /\ args.resume)
                => (step_counter'[w] = ckpt[1].step /\ step_counter'[w] > 0)]_vars

\* C1 witness: a resumed process has crossed an epoch boundary and taken a step.
C1_Witness ==
    \E w \in Workers :
        /\ args.resume /\ launches >= 2 /\ pc[w] = "reshape"
        /\ bi[w] = 1 /\ epoch[w] > ckpt[1].epoch

\* C2: after a restart with resume the process continues at the saved epoch
\* and step; the step numbers executed by the run before the save and the run
\* after the restart are 1, 2, 3, ... with none twice and none skipped.
C2_ResumeContinues ==
    \A w \in Workers :
        /\ lineage[w] = [k \in 1..Len(lineage[w]) |-> k]
        /\ (pc[w] \notin {"off", "start", "caching", "dataset", "resume", "error"})
               => Len(lineage[w]) = step_counter[w]
        /\ (pc[w] = "prepare" /\ args.resume)
               => (step_counter[w] = ckpt[1].step /\ next_epoch[w] = ckpt[1].epoch)
        /\ (InStep(w) /\ args.resume /\ Len(recorded[w].text) = 0)
               => (step_counter[w] = ckpt[1].step + 1 /\ epoch[w] = ckpt[1].epoch)
        /\ (pc[w] = "done" /\ args.resume) => step_counter[w] >= ckpt[1].step

\* C2 witness: the first step after a restart with resume, numbered s + 1.
C2_Witness ==
    \E w \in Workers :
        /\ args.resume /\ launches >= 2 /\ pc[w] = "reshape"
        /\ ckpt # <<>> /\ step_counter[w] = ckpt[1].step + 1
        /\ epoch[w] = ckpt[1].epoch

\* C3 as stated: every step a process executes, resumed or not, is the step
\* the uninterrupted run executes under that number, (epoch, batch index, step),
\* and the run ends at the final step number of the uninterrupted run.
C3_AsIfUninterrupted ==
    \A w \in Workers :
        LET L == WorkerLoaderLen(cache_files[w], args.cache_batch_size)
        IN /\ InStep(w) => /\ epoch[w] = (step_counter[w] - 1) \div L
                           /\ bi[w] = ((step_counter[w] - 1) % L) + 1
           /\ pc[w] = "done" => step_counter[w] = num_epochs * L

\* C4: at every step every sample has the timestep 0.7 when the step is a
\* multiple of the debug or of the inference cadence, and a value of [0,1)
\* otherwise; with cadences 20 and 200 the overridden steps up to 40 are 20, 40.
C4_Timesteps ==
    \A w \in Workers :
        pc[w] = "forward" =>
            /\ Len(times[w]) = bsz[w]
            /\ (step_counter[w] % args.debug_steps = 0
                  \/ step_counter[w] % args.inference_steps = 0)
                 => (overridden[w] /\ \A k \in 1..bsz[w] : times[w][k] = FixedTimestep)
            /\ (step_counter[w] % args.debug_steps # 0
                  /\ step_counter[w] % args.inference_steps # 0)
                 => (~overridden[w] /\ \A k \in 1..bsz[w] : times[w][k] \in 0..9)
            /\ (args.debug_steps = 20 /\ args.inference_steps = 200
                  /\ step_counter[w] \in 1..40)
                 => (overridden[w] <=> step_counter[w] \in {20, 40})

\* C4 witness: step 40 of the run with debug cadence 20 has drawn its timesteps.
C4_Witness ==
    \E w \in Workers :
        /\ pc[w] = "forward" /\ args.debug_steps = 20 /\ step_counter[w] = 40
        /\ times[w] = [k \in 1..bsz[w] |-> FixedTimestep]


\* C5: a launch that finds the cache directory populated and has no --cache
\* flag invokes the encoder for no batch and writes no shard file: every shard
\* file stays as the launch found it.
C5_CacheIdempotent ==
    ((\E w \in Workers : pc[w] # "off") /\ ~args.cache /\ DOMAIN at_launch.dir # {})
        => /\ encodes = at_launch.encodes
           /\ writes = at_launch.writes
           /\ cache_dir = at_launch.dir

\* C5 witness: a second launch without --cache on a populated directory has
\* gone through the cache section and is training.
C5_Witness ==
    \E w \in Workers :
        /\ launches >= 2 /\ ~args.cache /\ DOMAIN at_launch.dir # {}
        /\ pc[w] = "reshape" /\ encodes > 0

\* the shards of batch size bs in dir are those of a complete build
CompleteShardSet(dir, bs) ==
    {n[2] : n \in {m \in DOMAIN dir : m[1] = bs}} = 0..(NumBatches(npairs, bs) - 1)

\* C6 as stated: once a process is past its cache section, the shard set of the
\* configured batch size is complete: an interrupted build, or a directory
\* holding only shards of another batch size, is rebuilt before training.
C6_CompleteOrRebuilt ==
    \A w \in Workers :
        pc[w] \notin {"off", "start", "caching"} => CompleteShardSet(cache_dir, args.batch_size)

\* C7 as stated: no save-cadence tick has two checkpoint writes.
C7_OneSnapshotPerTick ==
    \A i, j \in 1..Len(saves) : saves[i].step = saves[j].step => i = j

\* C8 as stated: both loss windows hold at most N_loss_window samples in every state.
C8_WindowAtMostN ==
    \A w \in Workers :
        /\ Len(text_loss_window[w]) <= N_loss_window
        /\ Len(diffusion_loss_window[w]) <= N_loss_window

\* C8 as amended: a loss window holds at most N_loss_window = 100 samples
\* whenever its average is read and from then until the next append; the new
\* sample is appended first and the oldest evicted afterwards, so between its
\* append and its eviction a window holds at most N_loss_window + 1 samples.
C8_WindowBounded ==
    \A w \in Workers :
        /\ Len(text_loss_window[w]) <= 101
        /\ Len(diffusion_loss_window[w]) <= 101
        /\ pc[w] \notin {"append_diffusion", "evict_text"}
               => Len(text_loss_window[w]) <= 100
        /\ pc[w] \notin {"evict_text", "evict_diffusion"}
               => Len(diffusion_loss_window[w]) <= 100
        /\ (pc[w] = "evict_text" /\ Len(recorded[w].text) > 100)
               => (Len(text_loss_window[w]) = 101 /\ Len(diffusion_loss_window[w]) = 101)

\* C8 witness: the text window holds 101 samples, its eviction is next.
C8_Witness ==
    \E w \in Workers : pc[w] = "evict_text" /\ Len(text_loss_window[w]) = 101

\* the sum of the last n elements of s
SumOfLast(s, n) == SumSeq(SubSeq(s, Len(s) - n + 1, Len(s)))

\* C9: after k recorded values the reported average is the mean of all of them
\* when k <= 100 and the mean of the most recent 100 when k > 100.
C9_MovingAverage ==
    \A w \in Workers :
        pc[w] = "debug" =>
            LET k == Len(recorded[w].text)
                n == IF k <= 100 THEN k ELSE 100
            IN /\ k = Len(recorded[w].diffusion) /\ k >= 1
               /\ avg[w].text[2] > 0 /\ avg[w].diffusion[2] > 0
               /\ avg[w].text[1] * n = SumOfLast(recorded[w].text, n) * avg[w].text[2]
               /\ avg[w].diffusion[1] * n
                      = SumOfLast(recorded[w].diffusion, n) * avg[w].diffusion[2]
               /\ text_loss_window[w] = SubSeq(recorded[w].text, k - n + 1, k)

\* C9 witness: an average over a window that has evicted, of values that differ.
C9_Witness ==
    \E w \in Workers :
        /\ pc[w] = "debug" /\ Len(recorded[w].text) > 100
        /\ recorded[w].text[1] # recorded[w].text[Len(recorded[w].text)]

\* C10: unpatchify(patchify(x)) = x for every tensor whose H and W are
\* multiples of patch_size, and the closure handed to the renderer is bound to
\* (bsz, 4, image_size/8, image_size/8, patch_size) of the step, so it maps the
\* step's patchified latents back to the step's latents.
C10_RoundTrip ==
    /\ (pf.stage = "restored" /\ pf.x.shape[3] % pf.p = 0 /\ pf.x.shape[4] % pf.p = 0)
           => (pf.z.ok /\ pf.z = pf.x
               /\ pf.y.shape = <<pf.x.shape[1],
                                 (pf.x.shape[3] \div pf.p) * (pf.x.shape[4] \div pf.p),
                                 pf.x.shape[2] * pf.p * pf.p>>)
    /\ \A w \in Workers :
           (pc[w] = "inference" /\ rendered[w].step = step_counter[w]) =>
               /\ rendered[w].f = [patch_size |-> args.patch_size, B |-> bsz[w], C |-> 4,
                                   H |-> args.image_size \div 8, W |-> args.image_size \div 8]
               /\ rendered[w].latents = latents[w]
               /\ ApplyClosure(rendered[w].f, rendered[w].latents)
                      = ReshapeLatents(batch[w], Len(batch[w].shards) * SamplesPerShard(batch[w]),
                                       args.image_size)

\* C10 witness: the renderer was handed the closure in a step of two shards
\* with patches of size 2.
C10_Witness ==
    \E w \in Workers :
        /\ pc[w] = "inference" /\ rendered[w].step = step_counter[w]
        /\ Len(batch[w].shards) = 2 /\ args.patch_size = 2 /\ rendered[w].latents.ok


\* worker v has called the wait_for_everyone of call site label in step s
HasArrived(v, label, s) == <<v, label, s>> \in arrivals

\* C11: a worker is at the checkpoint save or at the debug render of step s
\* only after every worker has reached the barrier of that call site in step s,
\* and saves and renders happen only in steps whose cadence condition holds.
C11_BarrierBeforeIO ==
    /\ \A w \in Workers :
         /\ pc[w] = "save_write" =>
                /\ step_counter[w] % args.save_steps = 0
                /\ \A v \in Workers : HasArrived(v, "save_wait", step_counter[w])
         /\ pc[w] = "debug_render" =>
                /\ step_counter[w] % args.debug_steps = 0
                /\ \A v \in Workers : HasArrived(v, "debug_wait", step_counter[w])
         /\ rendered[w] # NoRender => rendered[w].step % args.debug_steps = 0
    /\ \A k \in 1..Len(saves) :
         /\ saves[k].step % args.save_steps = 0
         /\ \A v \in Workers : HasArrived(v, "save_wait", saves[k].step)

\* C11 witness: of two workers one is writing the checkpoint of a step while
\* the other has passed the barrier and not yet written.
C11_Witness ==
    /\ nworkers = 2
    /\ pc[1] = "save_write" /\ pc[2] = "save_write"
    /\ step_counter[1] = step_counter[2]


\* C12: a step is followed by a checkpoint save exactly when its step counter
\* is a multiple of save_steps, the saved record carries the epoch and the step
\* counter of that step, and every checkpoint's step is a positive multiple of
\* save_steps.
C12_SaveCadence ==
    /\ \A w \in Workers :
         /\ (pc[w] = "batch" /\ bi[w] >= 1) =>
                ((step_counter[w] % args.save_steps = 0)
                    <=> \E k \in 1..Len(saves) : saves[k].step = step_counter[w])
         /\ (pc[w] = "batch" /\ bi[w] >= 1 /\ step_counter[w] % args.save_steps = 0) =>
                /\ ckpt # <<>>
                /\ ckpt[1].step = step_counter[w]
                /\ ckpt[1].epoch = epoch[w]
                /\ saves[Len(saves)] = [worker |-> w, epoch |-> epoch[w],
                                        step |-> step_counter[w]]
    /\ \A k \in 1..Len(saves) : saves[k].step > 0 /\ saves[k].step % args.save_steps = 0
    /\ ckpt # <<>> => (ckpt[1].step > 0 /\ ckpt[1].step % args.save_steps = 0)

\* C12 witness: the second save of a launch has been written, in a later epoch
\* than the first.
C12_Witness ==
    \E w \in Workers :
        /\ pc[w] = "batch" /\ bi[w] >= 1 /\ Len(saves) = 2
        /\ saves[2].step = step_counter[w] /\ saves[2].epoch > saves[1].epoch

\* C13: a launch that builds the cache invokes the encoder once per dataset
\* batch and leaves, for its batch size, exactly the shards 0..n-1; shard i
\* holds the token ids and the encoded latents of the i-th batch in dataset
\* order and no pixel values, under the name of its batch size and index.
C13_CacheBuild ==
    \A w \in Workers :
        (pc[w] \notin {"off", "start", "caching"}
           /\ (args.cache \/ DOMAIN at_launch.dir = {})) =>
            LET bs == args.batch_size
                n == (npairs + bs - 1) \div bs
            IN /\ encodes = at_launch.encodes + n
               /\ writes = at_launch.writes + n
               /\ {m \in DOMAIN cache_dir : m[1] = bs} = {<<bs, i>> : i \in 0..(n - 1)}
               /\ \A i \in 0..(n - 1) :
                    LET shard == cache_dir[<<bs, i>>]
                        size == IF (i + 1) * bs <= npairs THEN bs ELSE npairs - i * bs
                    IN /\ DOMAIN shard = {"input_ids", "image_latents"}
                       /\ shard["input_ids"] = [k \in 1..size |-> i * bs + k]
                       /\ shard["image_latents"] = [k \in 1..size |-> [enc |-> i * bs + k]]

\* C13 witness: a forced rebuild over an existing cache has written two shards.
C13_Witness ==
    \E w \in Workers :
        /\ pc[w] = "dataset" /\ args.cache /\ DOMAIN at_launch.dir # {}
        /\ encodes = at_launch.encodes + 2

\* C14 as stated: once a fetched batch has been reshaped, bsz is the number of
\* shards in the batch times the samples per shard, both reshapes are valid and
\* every sample of the batch is one row of the flat batch.
C14_FlatBatchSize ==
    \A w \in Workers :
        (batch[w].ok /\ pc[w] \notin {"off", "reshape"}) =>
            /\ bsz[w] = Len(batch[w].shards) * SamplesPerShard(batch[w])
            /\ text[w].ok /\ latents[w].ok
            /\ text[w].shape = <<bsz[w], args.max_length>>
            /\ latents[w].shape[1] = bsz[w]

\* C15: whenever the moving averages are computed both windows hold at least
\* one value, the value of this step, also in the first step after a resume.
C15_NoEmptyWindow ==
    \A w \in Workers :
        /\ pc[w] = "average" =>
               /\ Len(text_loss_window[w]) >= 1
               /\ Len(diffusion_loss_window[w]) >= 1
               /\ text_loss_window[w][Len(text_loss_window[w])] = loss[w].text
               /\ diffusion_loss_window[w][Len(diffusion_loss_window[w])]
                      = loss[w].diffusion
        /\ pc[w] \in {"debug", "debug_wait", "debug_render", "inference", "infer_wait",
                      "save", "save_wait", "save_write"}
               => (avg[w].text[2] >= 1 /\ avg[w].diffusion[2] >= 1)

\* C15 witness: the averages of the first step after a restart with resume.
C15_Witness ==
    \E w \in Workers :
        /\ args.resume /\ launches >= 2 /\ pc[w] = "debug"
        /\ Len(recorded[w].text) = 1 /\ avg[w].text[2] = 1


\* the operations of step s in the order of the loop body
StepOps(s) ==
    <<"fetch", "forward", "backward", "optimizer_step", "scheduler_step", "zero_grad",
      "record_text", "record_diffusion">>
    \o (IF s % args.debug_steps = 0 THEN <<"debug_render">> ELSE <<>>)
    \o (IF s % args.inference_steps = 0 THEN <<"inference_barrier">> ELSE <<>>)
    \o (IF s % args.save_steps = 0 THEN <<"save">> ELSE <<>>)

IsPrefix(s, t) == Len(s) <= Len(t) /\ s = SubSeq(t, 1, Len(s))

\* C16: within a step the operations run in the order forward, backward,
\* optimizer step, scheduler step, zero-grad, loss recording, then debug render,
\* inference barrier and checkpoint save where due; a step is complete before
\* the next batch is fetched, the forward pass starts with cleared gradients,
\* and a saved checkpoint holds the optimizer and scheduler updates of its step.
C16_StepOrder ==
    /\ \A w \in Workers :
         /\ InStep(w) => IsPrefix(ops[w], StepOps(step_counter[w]))
         /\ (pc[w] = "batch" /\ bi[w] >= 1) => ops[w] = StepOps(step_counter[w])
         /\ pc[w] \in {"reshape", "times", "forward"} =>
                /\ ops[w] = <<"fetch">>
                /\ ~updates[w].grads
                /\ updates[w].opt = step_counter[w] - 1
                /\ updates[w].sched = step_counter[w] - 1
         /\ pc[w] = "save_write" =>
                /\ updates[w].opt = step_counter[w]
                /\ updates[w].sched = step_counter[w]
    /\ ckpt # <<>> =>
         /\ ckpt[1].updates.opt = ckpt[1].step
         /\ ckpt[1].updates.sched = ckpt[1].step
         /\ ~ckpt[1].updates.grads

\* C16 witness: a step in which the render, the inference barrier and the save
\* were all due has completed.
C16_Witness ==
    \E w \in Workers :
        /\ pc[w] = "batch" /\ bi[w] >= 1
        /\ Len(ops[w]) = 11 /\ ops[w][11] = "save"
        /\ ckpt # <<>> /\ ckpt[1].step = step_counter[w]


\* the steps of the training loop of worker w, from the first epoch test to
\* the end of the last epoch
InLoop(w) == InStep(w) \/ pc[w] \in {"epoch", "batch"}

\* C17 as stated: the loop starts at start_epoch, runs the epochs up to
\* num_epochs - 1 in increasing order with one step per batch of the loader,
\* leaves an epoch only after its last batch, leaves the loop only when no
\* epoch is left, and runs no step when start_epoch >= num_epochs.
C17_LoopStructure ==
    \A w \in Workers :
        LET L == WorkerLoaderLen(cache_files[w], args.cache_batch_size)
        IN /\ (pc[w] = "prepare" /\ pc'[w] = "epoch")
                  => next_epoch[w] = StartEpoch(args.resume, ckpt)
           /\ (pc[w] = "epoch" /\ pc'[w] = "batch")
                  => /\ next_epoch[w] < num_epochs
                     /\ epoch'[w] = next_epoch[w]
                     /\ next_epoch'[w] = next_epoch[w] + 1
                     /\ bi'[w] = 0
           /\ (pc[w] = "epoch" /\ next_epoch[w] >= num_epochs)
                  => pc'[w] \in {"epoch", "done", "off"}
           /\ (pc[w] = "epoch" /\ pc'[w] = "done") => next_epoch[w] >= num_epochs
           /\ (pc[w] = "batch" /\ pc'[w] = "reshape")
                  => (bi'[w] = bi[w] + 1 /\ bi'[w] <= L /\ epoch'[w] = epoch[w])
           /\ (pc[w] = "batch" /\ pc'[w] = "epoch") => bi[w] = L
           /\ (InStep(w) /\ pc'[w] # pc[w]) => (InStep(w)' \/ pc'[w] \in {"batch", "off"})

C17_Terminates == [][C17_LoopStructure]_vars

====
